---- MODULE Spec2Model ----
(***************************************************************************)
(* Model of registry/client.go: a Repository handle (user, password, cached *)
(* bearer token) and its two public operations, HasImage and               *)
(* HasPlatformImage, run against a registry and an auth service whose      *)
(* answers are chosen nondeterministically.                                 *)
(*                                                                         *)
(* The Www-Authenticate header, which the code scans character by          *)
(* character, is a sequence of one-character strings; the Content-Type     *)
(* header is a sequence of pieces (the media type name, then one piece per *)
(* further character); text the code only compares or copies (user,        *)
(* password, token, architecture, os, digest) is a TLA+ string.            *)
(***************************************************************************)
EXTENDS Naturals, Integers, Sequences, FiniteSets, TLC

\* ------------------------------------------------------------------ bounds
\* Longest descriptor list a manifest-list / index body carries.
MaxDescs == 2
\* Longest image reference given to New, in characters.
MaxImageLen == 4

\* ------------------------------------------------------- program constants
\* tries := 2 in HasImage.
MaxTries == 2
StatusOK == 200
StatusUnauthorized == 401
\* Statuses other than 200 and 401 that a server may answer with.
OtherStatuses == {404, 500}

\* --------------------------------------------------------------- callers
\* Threads of control that may call into the handle.  The sequential
\* specification Spec lets only caller 1 run.
Procs == {1, 2}
SeqProcs == {1}

\* ------------------------------------------------------------ text helpers
HasPrefix(s, prefix) ==
    /\ Len(s) >= Len(prefix)
    /\ SubSeq(s, 1, Len(prefix)) = prefix

\* strings.IndexByte: index of the first c in s, 0 when absent (Go: -1).
IndexByte(s, c) ==
    IF \E i \in 1..Len(s) : s[i] = c
    THEN CHOOSE i \in 1..Len(s) : s[i] = c /\ \A j \in 1..(i-1) : s[j] # c
    ELSE 0

\* strings.SplitN(h, " ", 2)[1] for an h known to contain a space.
AfterFirstSpace(h) == SubSeq(h, IndexByte(h, " ") + 1, Len(h))

\* The class [a-zA-Z0-9_] of partRegexp, over the characters the model uses.
WordChars == {"r", "e", "a", "l", "m", "s", "v", "i", "c", "o", "p", "u", "x", "B", "b", "_", "1"}

\* ------------------------------------------------------- parseAuthHeader
\* End index of the longest run of [^"] characters starting at i (i-1 when
\* the run is empty).
RECURSIVE RunEnd(_, _, _)
RunEnd(s, i, set) ==
    IF i <= Len(s) /\ s[i] \in set THEN RunEnd(s, i + 1, set) ELSE i - 1

NotQuote(s) == {s[k] : k \in 1..Len(s)} \ {"\""}

\* A match of partRegexp  [a-zA-Z0-9_]+="[^"]*"  starting exactly at i:
\* the index of its closing quote, or 0 when there is no match at i.
MatchPartAt(s, i) ==
    LET w == RunEnd(s, i, WordChars)
    IN  IF w < i THEN 0
        ELSE IF w + 2 <= Len(s) /\ s[w + 1] = "=" /\ s[w + 2] = "\""
        THEN LET v == RunEnd(s, w + 3, NotQuote(s))
             IN  IF v + 1 <= Len(s) /\ s[v + 1] = "\"" THEN v + 1 ELSE 0
        ELSE 0

\* regexp.FindAllString(bearer, -1): leftmost, non-overlapping matches, as
\* <<key, value>> pairs (kv[0] and kv[1] with its quotes cut off).
RECURSIVE FindAllParts(_, _)
FindAllParts(s, i) ==
    IF i > Len(s) THEN <<>>
    ELSE LET e == MatchPartAt(s, i)
         IN  IF e = 0 THEN FindAllParts(s, i + 1)
             ELSE LET eq == i + IndexByte(SubSeq(s, i, e), "=") - 1
                  IN  <<  << SubSeq(s, i, eq - 1), SubSeq(s, eq + 2, e - 1) >>  >>
                        \o FindAllParts(s, e + 1)

\* parsed[key]: the value of the last pair with that key, "" when absent.
RECURSIVE Lookup(_, _)
Lookup(parts, key) ==
    IF parts = <<>> THEN <<>>
    ELSE IF parts[Len(parts)][1] = key THEN parts[Len(parts)][2]
    ELSE Lookup(SubSeq(parts, 1, Len(parts) - 1), key)

\* parseAuthHeader taking the pairs by position: first realm, then service,
\* then scope.
parseAuthHeader_Positional(bearer) ==
    LET parsed == FindAllParts(bearer, 1)
        at(n) == IF n <= Len(parsed) THEN parsed[n][2] ELSE <<>>
    IN  [endpoint |-> at(1), service |-> at(2), scope |-> at(3)]

parseAuthHeader(bearer) ==
    LET parsed == FindAllParts(bearer, 1)
    IN  [endpoint |-> Lookup(parsed, <<"r","e","a","l","m">>),
         service  |-> Lookup(parsed, <<"s","e","r","v","i","c","e">>),
         scope    |-> Lookup(parsed, <<"s","c","o","p","e">>)]

\* url.Parse(endpoint) fails on a first path segment that starts with a
\* colon ("missing protocol scheme").
urlParseFails(endpoint) == Len(endpoint) > 0 /\ endpoint[1] = ":"


\* -------------------------------------------------------------------- New
\* strings.SplitN(s, c, 2): s cut at its first c, or s alone when it has none.
SplitN2(s, c) ==
    LET i == IndexByte(s, c)
    IN  IF i = 0 THEN <<s>> ELSE <<SubSeq(s, 1, i - 1), SubSeq(s, i + 1, Len(s))>>

Contains(s, c) == \E i \in 1..Len(s) : s[i] = c

\* The Docker Hub host is one piece: no image reference the model draws
\* spells it.
dockerHubHost == <<"registry-1.docker.io">>
LibraryPrefix == <<"l", "i", "b", "r", "a", "r", "y", "/">>

\* New with the '.' looked for in the whole reference.
New_AnyDot(image) ==
    LET p == SplitN2(image, "/")
    IN  IF Contains(image, ".") /\ Len(p) >= 2
        THEN [host |-> p[1], repo |-> p[2]]
        ELSE [host |-> dockerHubHost,
              repo |-> IF ~Contains(image, "/") THEN LibraryPrefix \o image ELSE image]

\* New(image, user, password): the host and repo of the handle.
New(image) ==
    LET p == SplitN2(image, "/")
    IN  IF Contains(p[1], ".") /\ Len(p) >= 2
        THEN [host |-> p[1], repo |-> p[2]]
        ELSE [host |-> dockerHubHost,
              repo |-> IF ~Contains(image, "/") THEN LibraryPrefix \o image ELSE image]

\* ------------------------------------------------------------ value sets
Users == {"", "AWS", "bob"}
Passwords == {"", "pw"}
\* Tokens an auth service may issue; "" is an empty or missing Token field.
Tokens == {"t1", "t2"}

\* Www-Authenticate header values a registry may send with a 401.
H_None == <<>>
\* Bearer realm="u"
H_Bearer == <<"B","e","a","r","e","r"," ","r","e","a","l","m","=","\"","u","\"">>
\* Bearer realm=":"   (a realm url.Parse rejects)
H_BearerBadRealm == <<"B","e","a","r","e","r"," ","r","e","a","l","m","=","\"",":","\"">>
\* Basic realm="u"
H_Basic == <<"B","a","s","i","c"," ","r","e","a","l","m","=","\"","u","\"">>
\* Bearer            (no trailing space, no parameters)
H_BearerNoSpace == <<"B","e","a","r","e","r">>
WwwAuthenticate == {H_None, H_Bearer, H_BearerBadRealm, H_Basic, H_BearerNoSpace}

BearerPrefix == <<"B","e","a","r","e","r"," ">>

\* ------------------------------------------------------------ error values
\* An error value: its kind and, for the kinds that quote resp.Status, the
\* status.  nil is the kind "nil".
Err(kind, status) == [kind |-> kind, status |-> status]
Nil == Err("nil", 0)

\* ------------------------------------------------------- registry answers
\* err = TRUE is a transport failure of client.Do (no response).
TransportFailure == [err |-> TRUE, status |-> 0, wwwAuth |-> H_None]

HeadResponses ==
    {TransportFailure}
    \cup {[err |-> FALSE, status |-> s, wwwAuth |-> H_None] : s \in {StatusOK} \cup OtherStatuses}
    \cup {[err |-> FALSE, status |-> StatusUnauthorized, wwwAuth |-> h] : h \in WwwAuthenticate}

\* Token responses: valid = the body decodes as JSON; Token = its Token field.
LoginResponses ==
    {[err |-> TRUE, status |-> 0, valid |-> FALSE, Token |-> ""]}
    \cup {[err |-> FALSE, status |-> s, valid |-> TRUE, Token |-> ""] :
             s \in {StatusUnauthorized} \cup OtherStatuses}
    \cup {[err |-> FALSE, status |-> StatusOK, valid |-> FALSE, Token |-> ""]}
    \cup {[err |-> FALSE, status |-> StatusOK, valid |-> TRUE, Token |-> t] :
             t \in Tokens \cup {""}}

\* ---------------------------------------------------------- setAuthHeader
\* The Authorization header of a manifest or blob request; <<>> is none.
setAuthHeader_TokenFirst(u, pw, tok) ==
    IF tok # "" THEN <<"Bearer ", tok>>
    ELSE IF u = "AWS" /\ pw # "" THEN <<"Basic ", pw>>
    ELSE <<>>

setAuthHeader(u, pw, tok) ==
    IF u = "AWS" /\ pw # "" THEN <<"Basic ", pw>>
    ELSE IF tok # "" THEN <<"Bearer ", tok>>
    ELSE <<>>

\* req.SetBasicAuth(c.user, c.password) of login: the encoded user:password.
loginAuth(u, pw) ==
    IF u # "" /\ pw # "" THEN <<"Basic ", u, ":", pw>> ELSE <<>>

\* loginError with the check of client.Do's error left out.
loginError_IgnoresTransport(r) ==
    IF ~r.err /\ r.status # StatusOK THEN Err("login failed", r.status)
    ELSE IF ~r.err /\ ~r.valid THEN Err("login decode", 0)
    ELSE IF ~r.err /\ r.Token = "" THEN Err("response does not contains token", 0)
    ELSE Nil

\* loginError with the check for an empty Token left out.
loginError_AcceptsEmptyToken(r) ==
    IF r.err THEN Err("login transport", 0)
    ELSE IF r.status # StatusOK THEN Err("login failed", r.status)
    ELSE IF ~r.valid THEN Err("login decode", 0)
    ELSE Nil

\* The error login returns for a token response (lines 72-90).
loginError(r) ==
    IF r.err THEN Err("login transport", 0)
    ELSE IF r.status # StatusOK THEN Err("login failed", r.status)
    ELSE IF ~r.valid THEN Err("login decode", 0)
    ELSE IF r.Token = "" THEN Err("response does not contains token", 0)
    ELSE Nil

\* -------------------------------------------------------------------state
VARIABLES
    user,        \* Repository.user
    password,    \* Repository.password
    token,       \* Repository.token
    lastIssued,  \* history: Token of the latest successful token response
    op,          \* per caller: the public operation it is in
    pc,          \* per caller: its position in that operation
    tries,       \* per caller: HasImage's local tries
    args,        \* per caller: HasPlatformImage's (arch, os)
    log,         \* per caller: the requests its current call has issued
    ret,         \* per caller: what its call returned
    open,        \* per caller: the response bodies it has opened and not closed
    writing,     \* per caller: the value it is storing into c.token, "" if none
    overlap,     \* callers whose store into c.token overlaps another's store
    input,       \* argument of a function applied on its own (New, match, ...)
    output       \* the value that function returned

vars == <<user, password, token, lastIssued, op, pc, tries, args, log, ret,
          open, writing, overlap, input, output>>

\* The stores in progress (used by the concurrent specification only) and
\* the function applications (used by the specification of the pure
\* functions only).
raceVars == <<writing, overlap>>
pureVars == <<input, output>>

NoInput == [kind |-> "none"]
NoOutput == [kind |-> "none"]

\* resp.Body of a response that was received, and its Close.
Opened(bodies, b) == bodies \cup {b}
Closed(bodies, b) == bodies \ {b}

NoArgs == [arch |-> "", os |-> ""]
NoRet == [exists |-> FALSE, err |-> Err("none", 0)]

\* New(image, user, password): the handle starts without a token.
Init ==
    /\ user \in Users
    /\ password \in Passwords
    /\ token = ""
    /\ lastIssued = ""
    /\ op = [p \in Procs |-> "none"]
    /\ pc = [p \in Procs |-> "idle"]
    /\ tries = [p \in Procs |-> 0]
    /\ args = [p \in Procs |-> NoArgs]
    /\ log = [p \in Procs |-> <<>>]
    /\ ret = [p \in Procs |-> NoRet]
    /\ open = [p \in Procs |-> {}]
    /\ writing = [p \in Procs |-> ""]
    /\ overlap = {}
    /\ input = NoInput
    /\ output = NoOutput

\* A request as it leaves the handle, with the answer it got.  token and
\* issued are history: c.token and lastIssued when the request was built.
Request(kind, auth, target, r) ==
    [kind |-> kind, auth |-> auth, target |-> target, resp |-> r,
     token |-> token, issued |-> lastIssued]

\* fetchManifests(method, tag): the request carries setAuthHeader's header.
fetchManifests(method, r) ==
    Request(method, setAuthHeader(user, password, token), <<"manifests">>, r)

Return(p, exists, err) ==
    /\ pc' = [pc EXCEPT ![p] = "done"]
    /\ ret' = [ret EXCEPT ![p] = [exists |-> exists, err |-> err]]

\* NextTry with the loop condition tries >= 0 in place of tries > 0.
NextTry_OneMore(p, t) ==
    IF t >= 0
    THEN pc' = [pc EXCEPT ![p] = "getAvailability"] /\ UNCHANGED ret
    ELSE Return(p, FALSE, Err("aborted", 0))

\* End of one iteration of HasImage's loop with t tries left.
NextTry(p, t) ==
    IF t > 0
    THEN pc' = [pc EXCEPT ![p] = "getAvailability"] /\ UNCHANGED ret
    ELSE Return(p, FALSE, Err("aborted", 0))

\* ---------------------------------------------------------------- HasImage
\* Entry: tries := 2.
HasImageCall(p) ==
    /\ pc[p] \in {"idle", "done"}
    /\ op' = [op EXCEPT ![p] = "HasImage"]
    /\ pc' = [pc EXCEPT ![p] = "getAvailability"]
    /\ tries' = [tries EXCEPT ![p] = MaxTries]
    /\ args' = [args EXCEPT ![p] = NoArgs]
    /\ log' = [log EXCEPT ![p] = <<>>]
    /\ ret' = [ret EXCEPT ![p] = NoRet]
    /\ UNCHANGED <<user, password, token, lastIssued, open, raceVars, pureVars>>

\* ProbeSwitch with the default case reporting "not found" without an error.
ProbeSwitch_NotFoundIsFalse(p, r, t) ==
    IF r.status = StatusUnauthorized
    THEN IF HasPrefix(r.wwwAuth, <<"B","e","a","r","e","r"," ">>)
         THEN pc' = [pc EXCEPT ![p] = "login"] /\ UNCHANGED ret
         ELSE NextTry(p, t)
    ELSE IF r.status = StatusOK
    THEN Return(p, TRUE, Nil)
    ELSE Return(p, FALSE, Nil)

\* ProbeSwitch with a 401 on the last try sent to the default case.
ProbeSwitch_LastUnauthorizedIsStatus(p, r, t) ==
    IF r.status = StatusUnauthorized /\ t > 0
    THEN IF HasPrefix(r.wwwAuth, <<"B","e","a","r","e","r"," ">>)
         THEN pc' = [pc EXCEPT ![p] = "login"] /\ UNCHANGED ret
         ELSE NextTry(p, t)
    ELSE IF r.status = StatusOK
    THEN Return(p, TRUE, Nil)
    ELSE Return(p, FALSE, Err("status", r.status))

\* What the switch on resp.StatusCode does after a probe that got a response.
ProbeSwitch(p, r, t) ==
    IF r.status = StatusUnauthorized
    THEN IF HasPrefix(r.wwwAuth, BearerPrefix)
         THEN pc' = [pc EXCEPT ![p] = "login"] /\ UNCHANGED ret
         ELSE NextTry(p, t)
    ELSE IF r.status = StatusOK
    THEN Return(p, TRUE, Nil)
    ELSE Return(p, FALSE, Err("status", r.status))

\* getAvailability: the body of a HEAD response is closed at once (line 113).
getAvailabilityBodies(bodies, r) ==
    IF r.err THEN bodies ELSE Closed(Opened(bodies, "head"), "head")

\* login: defer resp.Body.Close() (line 75) runs on each return after it.
loginBodies(bodies, r) ==
    IF r.err THEN bodies ELSE Closed(Opened(bodies, "token"), "token")

\* One iteration of the loop up to the switch: tries--, the HEAD probe
\* (getAvailability), and the switch on its status.
HasImageProbe(p) ==
    /\ op[p] = "HasImage"
    /\ pc[p] = "getAvailability"
    /\ \E r \in HeadResponses :
         /\ tries' = [tries EXCEPT ![p] = tries[p] - 1]
         /\ log' = [log EXCEPT ![p] = Append(log[p], fetchManifests("HEAD", r))]
         /\ open' = [open EXCEPT ![p] = getAvailabilityBodies(@, r)]
         /\ IF r.err
            THEN Return(p, FALSE, Err("transport", 0))
            ELSE ProbeSwitch(p, r, tries[p] - 1)
    /\ UNCHANGED <<user, password, token, lastIssued, op, args, raceVars, pureVars>>

\* parseAuthHeader(auth[strings.Index(auth, " ")+1:]) for each header value a
\* registry may send (lines 250-251), computed once.
Challenge == [h \in WwwAuthenticate |-> parseAuthHeader(AfterFirstSpace(h))]

\* c.login(parseAuthHeader(auth)) for the challenge of the last probe.
login(p) ==
    /\ op[p] = "HasImage"
    /\ pc[p] = "login"
    /\ LET h == log[p][Len(log[p])].resp.wwwAuth
           ch == Challenge[h]
       IN  IF urlParseFails(ch.endpoint)
           THEN /\ Return(p, FALSE, Err("login url", 0))
                /\ UNCHANGED <<token, lastIssued, log, open>>
           ELSE \E r \in LoginResponses :
                  /\ log' = [log EXCEPT ![p] =
                               Append(log[p], Request("LOGIN", loginAuth(user, password), ch, r))]
                  /\ open' = [open EXCEPT ![p] = loginBodies(@, r)]
                  /\ IF loginError(r) = Nil
                     THEN /\ token' = r.Token
                          /\ lastIssued' = r.Token
                          /\ NextTry(p, tries[p])
                     ELSE /\ Return(p, FALSE, loginError(r))
                          /\ UNCHANGED <<token, lastIssued>>
    /\ UNCHANGED <<user, password, op, tries, args, raceVars, pureVars>>

\* ------------------------------------------------- manifests and configs
\* Values an architecture or os field may hold.  The code treats both as
\* arbitrary strings, so one set serves both fields.
Names == {"amd64", "linux"}
\* Requested arch / os: a name, or "" (not given).
Requested == Names \cup {""}

mediaTypeDockerSchema2ManifestList == "application/vnd.docker.distribution.manifest.list.v2+json"
mediaTypeDockerSchema2Manifest == "application/vnd.docker.distribution.manifest.v2+json"
MediaTypeImageIndex == "application/vnd.oci.image.index.v1+json"
MediaTypeImageManifest == "application/vnd.oci.image.manifest.v1+json"
mediaTypeSchema1PrettyJWS == "application/vnd.docker.distribution.manifest.v1+prettyjws"
mediaTypeSchema1JSON == "application/vnd.docker.distribution.manifest.v1+json"

KnownMediaTypes ==
    {mediaTypeDockerSchema2ManifestList, MediaTypeImageIndex,
     mediaTypeDockerSchema2Manifest, MediaTypeImageManifest,
     mediaTypeSchema1PrettyJWS, mediaTypeSchema1JSON}

\* Content-Type header values: a sequence of pieces, the media type name
\* being one piece and every other character a piece of its own.
ContentTypes ==
    {<<m>> : m \in KnownMediaTypes}
    \cup {<<MediaTypeImageIndex, ";", "charset=utf-8">>,
          <<MediaTypeImageManifest, ";", "charset=utf-8">>,
          <<MediaTypeImageIndex, " ", ";", "q=1">>,
          <<"text/html">>,
          <<"text/html", ";", "charset=utf-8">>,
          <<>>}

\* A descriptor's platform annotation; present = FALSE is a nil *Platform.
NoPlatform == [present |-> FALSE, architecture |-> "", os |-> ""]
Platforms ==
    {NoPlatform} \cup [present : {TRUE}, architecture : Names, os : Names]

Digests == {"sha256:d1"}
NoConfig == [platform |-> NoPlatform, digest |-> ""]

DescLists == UNION {[1..n -> Platforms] : n \in 0..MaxDescs}

\* A manifest response body as the JSON decoder sees it: valid = it decodes;
\* manifests = the platforms of its "manifests" descriptors (ocispec.Index);
\* config = its "config" descriptor (ocispec.Manifest).  A field the
\* document lacks decodes to the zero value.
BadBody == [valid |-> FALSE, manifests |-> <<>>, config |-> NoConfig]
ListBodies == [valid : {TRUE}, manifests : DescLists, config : {NoConfig}]
ManifestBodies ==
    [valid : {TRUE}, manifests : {<<>>},
     config : [platform : Platforms, digest : Digests]]
Bodies == {BadBody} \cup ListBodies \cup ManifestBodies

ManifestResponses ==
    {[err |-> TRUE, status |-> 0, wwwAuth |-> H_None, contentType |-> <<>>, body |-> BadBody]}
    \cup {[err |-> FALSE, status |-> s, wwwAuth |-> H_None,
           contentType |-> <<>>, body |-> BadBody] : s \in OtherStatuses}
    \cup {[err |-> FALSE, status |-> StatusUnauthorized, wwwAuth |-> h,
           contentType |-> <<>>, body |-> BadBody] : h \in {H_None, H_Bearer}}
    \cup [err : {FALSE}, status : {StatusOK}, wwwAuth : {H_None},
          contentType : ContentTypes, body : Bodies]

\* An image configuration body (ocispec.Image).
BadImage == [valid |-> FALSE, architecture |-> "", os |-> ""]
Images ==
    {BadImage}
    \cup {[valid |-> TRUE, architecture |-> "", os |-> ""]}
    \cup [valid : {TRUE}, architecture : Names, os : Names]

ConfigResponses ==
    {[err |-> TRUE, status |-> 0, body |-> BadImage]}
    \cup {[err |-> FALSE, status |-> s, body |-> BadImage] :
             s \in {StatusUnauthorized} \cup OtherStatuses}
    \cup [err : {FALSE}, status : {StatusOK}, body : Images]

\* ------------------------------------------------------ parseContentType
parseContentType(contentType) ==
    LET i == IndexByte(contentType, ";")
    IN  IF i # 0 THEN SubSeq(contentType, 1, i - 1) ELSE contentType

\* ------------------------------------------------------------------ match
\* match without the wildcard.
match_Exact(want, got) == want = got

match(want, got) == want = "" \/ want = got

\* rangeManifests with a descriptor that has no platform skipped.
RECURSIVE rangeManifests_SkipsUnannotated(_, _, _, _)
rangeManifests_SkipsUnannotated(ms, i, arch, os) ==
    IF i > Len(ms) THEN "no image"
    ELSE IF ms[i].present /\ match(arch, ms[i].architecture) /\ match(os, ms[i].os) THEN "nil"
    ELSE rangeManifests_SkipsUnannotated(ms, i + 1, arch, os)

\* The loop over manifestList.Manifests, from descriptor i on: "nil" on the
\* first descriptor without a platform or with a matching one, "no image"
\* when the list is exhausted.
RECURSIVE rangeManifests(_, _, _, _)
rangeManifests(ms, i, arch, os) ==
    IF i > Len(ms) THEN "no image"
    ELSE IF ~ms[i].present THEN "nil"
    ELSE IF match(arch, ms[i].architecture) /\ match(os, ms[i].os) THEN "nil"
    ELSE rangeManifests(ms, i + 1, arch, os)

\* if p := manifest.Config.Platform; p != nil { if match(arch, p.OS) &&
\* match(os, p.Architecture) { return nil } }
manifestPlatformMatches(p, arch, os) ==
    p.present /\ match(arch, p.os) /\ match(os, p.architecture)

\* mediaTypeSwitch with the plain-JSON schema v1 type handled as a single
\* manifest.
mediaTypeSwitch_LegacyJSONDecoded(mediaType, body, arch, os) ==
    IF mediaType \in {<<MediaTypeImageIndex>>, <<mediaTypeDockerSchema2ManifestList>>}
    THEN IF ~body.valid THEN "manifest list decode error"
         ELSE rangeManifests(body.manifests, 1, arch, os)
    ELSE IF mediaType \in {<<mediaTypeDockerSchema2Manifest>>, <<MediaTypeImageManifest>>,
                           <<mediaTypeSchema1JSON>>}
    THEN IF ~body.valid THEN "manifest decode error"
         ELSE IF manifestPlatformMatches(body.config.platform, arch, os) THEN "nil"
         ELSE "getImageConfig"
    ELSE IF mediaType \in {<<mediaTypeSchema1PrettyJWS>>}
    THEN "deprecated manifest"
    ELSE "unknown MediaType"

\* mediaTypeSwitch without its default case: an unlisted media type leaves
\* the switch and reaches the final "no image".
mediaTypeSwitch_NoDefault(mediaType, body, arch, os) ==
    IF mediaType \in {<<MediaTypeImageIndex>>, <<mediaTypeDockerSchema2ManifestList>>}
    THEN IF ~body.valid THEN "manifest list decode error"
         ELSE rangeManifests(body.manifests, 1, arch, os)
    ELSE IF mediaType \in {<<mediaTypeDockerSchema2Manifest>>, <<MediaTypeImageManifest>>}
    THEN IF ~body.valid THEN "manifest decode error"
         ELSE IF manifestPlatformMatches(body.config.platform, arch, os) THEN "nil"
         ELSE "getImageConfig"
    ELSE IF mediaType \in {<<mediaTypeSchema1PrettyJWS>>, <<mediaTypeSchema1JSON>>}
    THEN "deprecated manifest"
    ELSE "no image"

\* The switch on mediaType of HasPlatformImage up to its first blob request:
\* the kind of the error returned ("nil" for success), or "getImageConfig"
\* when the call goes on to fetch the config blob.
mediaTypeSwitch(mediaType, body, arch, os) ==
    IF mediaType \in {<<MediaTypeImageIndex>>, <<mediaTypeDockerSchema2ManifestList>>}
    THEN IF ~body.valid THEN "manifest list decode error"
         ELSE rangeManifests(body.manifests, 1, arch, os)
    ELSE IF mediaType \in {<<mediaTypeDockerSchema2Manifest>>, <<MediaTypeImageManifest>>}
    THEN IF ~body.valid THEN "manifest decode error"
         ELSE IF manifestPlatformMatches(body.config.platform, arch, os) THEN "nil"
         ELSE "getImageConfig"
    ELSE IF mediaType \in {<<mediaTypeSchema1PrettyJWS>>, <<mediaTypeSchema1JSON>>}
    THEN "deprecated manifest"
    ELSE "unknown MediaType"

\* The end of HasPlatformImage after the config blob has been read.
imageSwitch(image, arch, os) ==
    IF ~image.valid THEN "image config decode error"
    ELSE IF match(arch, image.architecture) /\ match(os, image.os) THEN "nil"
    ELSE "no image"

\* -------------------------------------------------------- HasPlatformImage
HasPlatformImageCall(p) ==
    /\ pc[p] \in {"idle", "done"}
    /\ \E arch \in Requested, os \in Requested :
         args' = [args EXCEPT ![p] = [arch |-> arch, os |-> os]]
    /\ op' = [op EXCEPT ![p] = "HasPlatformImage"]
    /\ pc' = [pc EXCEPT ![p] = "getManifests"]
    /\ tries' = [tries EXCEPT ![p] = 0]
    /\ log' = [log EXCEPT ![p] = <<>>]
    /\ ret' = [ret EXCEPT ![p] = NoRet]
    /\ UNCHANGED <<user, password, token, lastIssued, open, raceVars, pureVars>>

\* The bodies open after getManifests and the switch on the media type:
\* a non-200 response is closed in getManifests (line 123); the body of a
\* 200 response is closed by defer rc.Close() (line 179) when
\* HasPlatformImage returns, so it stays open while the call goes on to
\* the config blob.
getManifestsBodies(bodies, r, out) ==
    IF r.err THEN bodies
    ELSE IF r.status # StatusOK THEN Closed(Opened(bodies, "manifest"), "manifest")
    ELSE IF out = "getImageConfig" THEN Opened(bodies, "manifest")
    ELSE Closed(Opened(bodies, "manifest"), "manifest")

\* getImageConfig with the Close of a non-200 response left out.
getImageConfigBodies_LeaksOnStatus(bodies, r) ==
    IF r.err THEN Closed(bodies, "manifest")
    ELSE IF r.status # StatusOK
    THEN Closed(Opened(bodies, "config"), "manifest")
    ELSE Closed(Closed(Opened(bodies, "config"), "config"), "manifest")

\* The bodies open when HasPlatformImage returns after getImageConfig: a
\* non-200 blob response is closed in getImageConfig (line 143), the body of
\* a 200 response by defer rc.Close() (line 219); the manifest body by the
\* first defer (line 179) on every return.
getImageConfigBodies(bodies, r) ==
    IF r.err THEN Closed(bodies, "manifest")
    ELSE IF r.status # StatusOK
    THEN Closed(Closed(Opened(bodies, "config"), "config"), "manifest")
    ELSE Closed(Closed(Opened(bodies, "config"), "config"), "manifest")

\* getManifests with the auth negotiator run on a 401 Bearer challenge.
getManifests_Negotiates(p) ==
    /\ op[p] = "HasPlatformImage"
    /\ pc[p] = "getManifests"
    /\ \E r \in ManifestResponses :
         LET req == fetchManifests("GET", r)
             challenged == ~r.err /\ r.status = StatusUnauthorized
                           /\ HasPrefix(r.wwwAuth, BearerPrefix)
         IN  IF challenged
             THEN \E t \in Tokens :
                    /\ log' = [log EXCEPT ![p] =
                                 << req,
                                    Request("LOGIN", loginAuth(user, password),
                                            parseAuthHeader(AfterFirstSpace(r.wwwAuth)),
                                            [err |-> FALSE, status |-> StatusOK,
                                             valid |-> TRUE, Token |-> t]) >>]
                    /\ token' = t
                    /\ lastIssued' = t
                    /\ UNCHANGED <<pc, ret, open>>
             ELSE /\ log' = [log EXCEPT ![p] = Append(log[p], req)]
                  /\ open' = [open EXCEPT ![p] =
                                getManifestsBodies(@, r,
                                    mediaTypeSwitch(parseContentType(r.contentType),
                                                    r.body, args[p].arch, args[p].os))]
                  /\ UNCHANGED <<token, lastIssued>>
                  /\ IF r.err THEN Return(p, FALSE, Err("transport", 0))
                     ELSE IF r.status # StatusOK
                     THEN Return(p, FALSE, Err("status", r.status))
                     ELSE LET out == mediaTypeSwitch(parseContentType(r.contentType),
                                                     r.body, args[p].arch, args[p].os)
                          IN  IF out = "getImageConfig"
                              THEN pc' = [pc EXCEPT ![p] = "getImageConfig"] /\ UNCHANGED ret
                              ELSE Return(p, FALSE, Err(out, 0))
    /\ UNCHANGED <<user, password, op, tries, args, raceVars, pureVars>>

\* getManifests(tag) and the switch on the media type it returns.
getManifests(p) ==
    /\ op[p] = "HasPlatformImage"
    /\ pc[p] = "getManifests"
    /\ \E r \in ManifestResponses :
         /\ log' = [log EXCEPT ![p] = Append(log[p], fetchManifests("GET", r))]
         /\ open' = [open EXCEPT ![p] =
                       getManifestsBodies(@, r,
                           mediaTypeSwitch(parseContentType(r.contentType),
                                           r.body, args[p].arch, args[p].os))]
         /\ IF r.err THEN Return(p, FALSE, Err("transport", 0))
            ELSE IF r.status # StatusOK THEN Return(p, FALSE, Err("status", r.status))
            ELSE LET out == mediaTypeSwitch(parseContentType(r.contentType), r.body,
                                            args[p].arch, args[p].os)
                 IN  IF out = "getImageConfig"
                     THEN pc' = [pc EXCEPT ![p] = "getImageConfig"] /\ UNCHANGED ret
                     ELSE Return(p, FALSE, Err(out, 0))
    /\ UNCHANGED <<user, password, token, lastIssued, op, tries, args, raceVars, pureVars>>

\* getImageConfig with the call of setAuthHeader left out.
getImageConfig_NoAuth(p) ==
    /\ op[p] = "HasPlatformImage"
    /\ pc[p] = "getImageConfig"
    /\ \E r \in ConfigResponses :
         LET digest == log[p][Len(log[p])].resp.body.config.digest
             out == imageSwitch(r.body, args[p].arch, args[p].os)
         IN  /\ log' = [log EXCEPT ![p] =
                          Append(log[p], Request("GET", <<>>, <<"blobs", digest>>, r))]
             /\ IF r.err THEN Return(p, FALSE, Err("transport", 0))
                ELSE IF r.status # StatusOK THEN Return(p, FALSE, Err("status", r.status))
                ELSE Return(p, FALSE, Err(out, 0))
             /\ open' = [open EXCEPT ![p] = getImageConfigBodies(@, r)]
    /\ UNCHANGED <<user, password, token, lastIssued, op, tries, args, raceVars, pureVars>>

\* getImageConfig(manifest.Config.Digest.String()) and the comparison of the
\* decoded image configuration.
getImageConfig(p) ==
    /\ op[p] = "HasPlatformImage"
    /\ pc[p] = "getImageConfig"
    /\ \E r \in ConfigResponses :
         LET digest == log[p][Len(log[p])].resp.body.config.digest
             out == imageSwitch(r.body, args[p].arch, args[p].os)
         IN  /\ log' = [log EXCEPT ![p] =
                          Append(log[p], Request("GET", setAuthHeader(user, password, token),
                                                 <<"blobs", digest>>, r))]
             /\ IF r.err THEN Return(p, FALSE, Err("transport", 0))
                ELSE IF r.status # StatusOK THEN Return(p, FALSE, Err("status", r.status))
                ELSE Return(p, FALSE, Err(out, 0))
             /\ open' = [open EXCEPT ![p] = getImageConfigBodies(@, r)]
    /\ UNCHANGED <<user, password, token, lastIssued, op, tries, args, raceVars, pureVars>>

Next ==
    \E p \in SeqProcs :
        \/ HasImageCall(p)
        \/ HasImageProbe(p)
        \/ login(p)
        \/ HasPlatformImageCall(p)
        \/ getManifests(p)
        \/ getImageConfig(p)

Spec == Init /\ [][Next]_vars

\* ================================================================ claims
\* Vocabulary of the properties below.
InHasImage(p) == op[p] = "HasImage"
InHasPlatformImage(p) == op[p] = "HasPlatformImage"
Returned(p) == pc[p] = "done"
Probes(p) == {i \in DOMAIN log[p] : log[p][i].kind = "HEAD"}
Logins(p) == {i \in DOMAIN log[p] : log[p][i].kind = "LOGIN"}
\* Requests to the manifest and blob endpoints.
RegistryRequests(p) == {i \in DOMAIN log[p] : log[p][i].kind \in {"HEAD", "GET"}}
Answered(e, status) == ~e.resp.err /\ e.resp.status = status
BearerChallenge(e) ==
    /\ Answered(e, StatusUnauthorized)
    /\ Len(e.resp.wwwAuth) >= 7
    /\ \A k \in 1..7 : e.resp.wwwAuth[k] = <<"B","e","a","r","e","r"," ">>[k]
LoginSucceeded(e) ==
    e.kind = "LOGIN" /\ Answered(e, StatusOK) /\ e.resp.valid /\ e.resp.Token # ""
StaticAWS == user = "AWS" /\ password # ""

\* ---------------------------------------------------------------------- C1
\* C1: a HasImage call that has returned gave exists = true with a nil error
\* exactly when one of its HEAD probes was answered 200, and exists = false
\* with a non-nil error otherwise.
T_C1_ExistsIffProbeOK ==
    \A p \in Procs :
        InHasImage(p) /\ Returned(p) =>
            LET ok == \E i \in Probes(p) : Answered(log[p][i], StatusOK)
            IN  /\ ret[p].exists <=> ok
                /\ ret[p].err = Nil <=> ok

\* A call that found the image on its retried probe, after a login.
W_C1_FoundAfterLogin ==
    \E p \in Procs :
        /\ InHasImage(p) /\ Returned(p)
        /\ Len(log[p]) = 3
        /\ LoginSucceeded(log[p][2])
        /\ ret[p] = [exists |-> TRUE, err |-> Nil]

\* ---------------------------------------------------------------------- C2
\* The case of C2: first probe 401 with a Bearer challenge, token exchange
\* completed, retried probe 401 again; the call has returned.
C2Case(p) ==
    /\ InHasImage(p) /\ Returned(p)
    /\ Len(log[p]) >= 3
    /\ log[p][1].kind = "HEAD" /\ BearerChallenge(log[p][1])
    /\ LoginSucceeded(log[p][2])
    /\ log[p][3].kind = "HEAD" /\ Answered(log[p][3], StatusUnauthorized)

CE_C3_AtMostOneLogin ==
    \A p \in Procs : InHasImage(p) => Cardinality(Logins(p)) <= 1

\* ---------------------------------------------------------------------- C4
\* A probe answer that C4 says ends the call: a 401 without a Bearer
\* challenge, or a status other than 200 and 401.
EndsCallPerC4(e) ==
    /\ e.kind = "HEAD"
    /\ ~e.resp.err
    /\ \/ Answered(e, StatusUnauthorized) /\ ~BearerChallenge(e)
       \/ e.resp.status \notin {StatusOK, StatusUnauthorized}

\* C4: such a probe is the last request of the call, and the call has
\* returned an error reporting that probe's status (not "aborted").
CE_C4_UnusableChallengeEndsCall ==
    \A p \in Procs :
        InHasImage(p) =>
            \A i \in Probes(p) :
                EndsCallPerC4(log[p][i]) =>
                    /\ i = Len(log[p])
                    /\ Returned(p)
                    /\ ret[p] = [exists |-> FALSE, err |-> Err("status", log[p][i].resp.status)]

\* ---------------------------------------------------------------------- C5
\* C5 as stated: once a login has succeeded on the handle, every manifest
\* HEAD/GET and config-blob GET carries the issued token as a Bearer header.
CE_C5_TokenOnEveryRequest ==
    \A p \in Procs :
        \A i \in RegistryRequests(p) :
            log[p][i].issued # "" => log[p][i].auth = <<"Bearer ", log[p][i].issued>>

\* C5 as amended: once a login has succeeded on the handle, every later
\* manifest HEAD/GET and config-blob GET carries the token of the latest
\* successful login as a Bearer header, unless the username is "AWS" and the
\* password is non-empty: then it carries the Basic header instead.
T_C5_LatestTokenUnlessAWS ==
    \A p \in Procs :
        \A i \in RegistryRequests(p) :
            log[p][i].issued # "" =>
                IF StaticAWS
                THEN log[p][i].auth = <<"Basic ", password>>
                ELSE log[p][i].auth = <<"Bearer ", log[p][i].issued>>

\* A config-blob GET of HasPlatformImage carrying a token that an earlier
\* HasImage call obtained.
W_C5_BlobRequestCarriesToken ==
    \E p \in Procs :
        /\ InHasPlatformImage(p)
        /\ Len(log[p]) = 2
        /\ log[p][2].target[1] = "blobs"
        /\ lastIssued = "t2"
        /\ log[p][1].auth = <<"Bearer ", "t2">>
        /\ log[p][2].auth = <<"Bearer ", "t2">>

\* ---------------------------------------------------------------------- C6
\* C6: the Authorization header of every manifest and blob request is
\* "Basic " + password when the username is "AWS" and a password is set (even
\* with a token cached), else "Bearer " + token when the cached token is
\* non-empty, else absent.
T_C6_AuthHeaderPrecedence ==
    \A p \in Procs :
        \A i \in RegistryRequests(p) :
            LET e == log[p][i]
            IN  /\ StaticAWS => e.auth = <<"Basic ", password>>
                /\ ~StaticAWS /\ e.token # "" => e.auth = <<"Bearer ", e.token>>
                /\ ~StaticAWS /\ e.token = "" => e.auth = <<>>

\* A request sent with Basic credentials while a token was cached.
W_C6_BasicDespiteToken ==
    \E p \in Procs :
        \E i \in RegistryRequests(p) :
            /\ StaticAWS
            /\ log[p][i].token # ""
            /\ log[p][i].auth = <<"Basic ", password>>

\* ---------------------------------------------------------------------- C7
\* The manifest GET of a HasPlatformImage call was answered 401 with a
\* Bearer challenge.
C7Case(p) ==
    /\ InHasPlatformImage(p)
    /\ Len(log[p]) >= 1
    /\ log[p][1].kind = "GET" /\ BearerChallenge(log[p][1])

\* C7 as stated: after such an answer a token request is sent before the
\* call returns.
CE_C7_ManifestGetNegotiates ==
    \A p \in Procs : C7Case(p) /\ Returned(p) => Logins(p) # {}

\* C7 as amended: when the manifest GET of HasPlatformImage returns 401,
\* with or without a Bearer challenge, no token request is sent and the
\* cached token is left as it was; the call returns at once with an error
\* carrying that status.  Only the HEAD probe of HasImage runs the negotiator.
T_C7_ManifestGetNeverNegotiates ==
    [][\A p \in Procs :
          ( /\ InHasPlatformImage(p)
            /\ pc[p] = "getManifests"
            /\ Len(log'[p]) > Len(log[p])
            /\ Answered(log'[p][1], StatusUnauthorized) )
          => /\ token' = token
             /\ Len(log'[p]) = 1
             /\ Logins(p)' = {}
             /\ Returned(p)'
             /\ ret'[p].err = Err("status", StatusUnauthorized)]_vars

\* A HasPlatformImage call that returned the 401 it got, with no token
\* cached and none requested.
W_C7_UnauthorizedReturned ==
    \E p \in Procs :
        /\ C7Case(p) /\ Returned(p)
        /\ Len(log[p]) = 1
        /\ token = ""
        /\ ret[p].err = Err("status", StatusUnauthorized)

\* ---------------------------------------------------------------------- C8
\* A 200 answer whose Content-Type names one of the given media types,
\* alone or followed by parameters.
HasMediaType(e, types) ==
    /\ e.kind = "GET" /\ e.target = <<"manifests">>
    /\ Answered(e, StatusOK)
    /\ Len(e.resp.contentType) >= 1
    /\ e.resp.contentType[1] \in types
    /\ Len(e.resp.contentType) >= 2 => e.resp.contentType[2] = ";"

ListCase(p) ==
    /\ InHasPlatformImage(p)
    /\ Len(log[p]) >= 1
    /\ HasMediaType(log[p][1], {MediaTypeImageIndex, mediaTypeDockerSchema2ManifestList})
    /\ log[p][1].resp.body.valid

\* The requested (arch, os) matches the reported pair, like for like, an
\* empty requested value matching anything.
PairMatches(a, reported) ==
    /\ a.arch = "" \/ a.arch = reported.architecture
    /\ a.os = "" \/ a.os = reported.os

\* C8: for a decodable manifest-list or index answer the call returns at
\* once, without a blob request: success if and only if some descriptor has
\* no platform or a platform matching the request, else "no image".
T_C8_ListMatch ==
    \A p \in Procs :
        ListCase(p) =>
            LET ms == log[p][1].resp.body.manifests
                hit == \E k \in DOMAIN ms : ~ms[k].present \/ PairMatches(args[p], ms[k])
            IN  /\ Returned(p)
                /\ Len(log[p]) = 1
                /\ ret[p].err = Nil <=> hit
                /\ ret[p].err = Err("no image", 0) <=> ~hit

\* Success for amd64/linux from a list whose first descriptor has no
\* platform and whose second is linux/amd64 (a mismatch).
W_C8_FirstUnannotated ==
    \E p \in Procs :
        /\ ListCase(p)
        /\ args[p] = [arch |-> "amd64", os |-> "linux"]
        /\ log[p][1].resp.body.manifests =
             << NoPlatform, [present |-> TRUE, architecture |-> "linux", os |-> "amd64"] >>
        /\ ret[p].err = Nil

\* ---------------------------------------------------------------------- C9
ManifestCase(p) ==
    /\ InHasPlatformImage(p)
    /\ Len(log[p]) >= 1
    /\ HasMediaType(log[p][1], {MediaTypeImageManifest, mediaTypeDockerSchema2Manifest})
    /\ log[p][1].resp.body.valid

\* C9: a call that got a single manifest whose annotation has the requested
\* architecture and the requested os returns success from the manifest
\* alone, with no config-blob request.
CE_C9_LikeWithLike ==
    \A p \in Procs :
        LET pf == log[p][1].resp.body.config.platform
        IN  ( /\ ManifestCase(p)
              /\ Returned(p)
              /\ pf.present
              /\ pf.architecture = args[p].arch
              /\ pf.os = args[p].os )
            => /\ Len(log[p]) = 1
               /\ ret[p].err = Nil

\* --------------------------------------------------------------------- C10
\* C10: a single manifest without an annotation, or with one that does not
\* match the request, leads to exactly one config-blob GET for the
\* manifest's digest, and the call's result is decided by that answer.
CE_C10_FallbackToConfig ==
    \A p \in Procs :
        LET pf == log[p][1].resp.body.config.platform
        IN  ( /\ ManifestCase(p)
              /\ Returned(p)
              /\ ~pf.present \/ ~PairMatches(args[p], pf) )
            => /\ Len(log[p]) = 2
               /\ log[p][2].kind = "GET"
               /\ log[p][2].target = <<"blobs", log[p][1].resp.body.config.digest>>
               /\ LET r == log[p][2].resp
                  IN  IF r.err THEN ret[p].err = Err("transport", 0)
                      ELSE IF r.status # StatusOK THEN ret[p].err = Err("status", r.status)
                      ELSE IF ~r.body.valid THEN ret[p].err = Err("image config decode error", 0)
                      ELSE IF PairMatches(args[p], r.body) THEN ret[p].err = Nil
                      ELSE ret[p].err = Err("no image", 0)

\* --------------------------------------------------------------------- C11
LegacyCase(p) ==
    /\ InHasPlatformImage(p)
    /\ Len(log[p]) >= 1
    /\ HasMediaType(log[p][1], {mediaTypeSchema1PrettyJWS, mediaTypeSchema1JSON})

\* C11: a 200 manifest answer with a schema v1 media type makes the call
\* return ErrDeprecatedManifest at once, whatever arch and os were requested
\* and whatever the body holds (it is not decoded), without a blob request.
T_C11_LegacyIsDeprecated ==
    \A p \in Procs :
        LegacyCase(p) =>
            /\ Returned(p)
            /\ Len(log[p]) = 1
            /\ ret[p].err = Err("deprecated manifest", 0)

\* The sentinel for an undecodable plain-JSON v1 body and empty arch and os.
W_C11_DeprecatedForEmptyRequest ==
    \E p \in Procs :
        /\ LegacyCase(p)
        /\ log[p][1].resp.contentType = <<mediaTypeSchema1JSON>>
        /\ ~log[p][1].resp.body.valid
        /\ args[p] = [arch |-> "", os |-> ""]
        /\ ret[p].err = Err("deprecated manifest", 0)

\* --------------------------------------------------------------------- C12
\* The Content-Type with everything from its first ';' removed.
StrippedType(ct) ==
    LET semis == {i \in 1..Len(ct) : ct[i] = ";"}
    IN  IF semis = {} THEN ct
        ELSE LET first == CHOOSE i \in semis : \A j \in semis : i <= j
             IN  [k \in 1..(first - 1) |-> ct[k]]

UnknownTypeCase(p) ==
    /\ InHasPlatformImage(p)
    /\ Len(log[p]) >= 1
    /\ log[p][1].kind = "GET"
    /\ Answered(log[p][1], StatusOK)
    /\ StrippedType(log[p][1].resp.contentType) \notin {<<m>> : m \in KnownMediaTypes}

\* C12: a 200 manifest answer whose stripped Content-Type is none of the six
\* known media types (an empty one included) makes the call return the
\* "unknown MediaType" error at once, without a blob request.
T_C12_UnknownMediaType ==
    \A p \in Procs :
        UnknownTypeCase(p) =>
            /\ Returned(p)
            /\ Len(log[p]) = 1
            /\ ret[p].err = Err("unknown MediaType", 0)

\* The error for a missing Content-Type on a body that would decode.
W_C12_EmptyContentType ==
    \E p \in Procs :
        /\ UnknownTypeCase(p)
        /\ log[p][1].resp.contentType = <<>>
        /\ log[p][1].resp.body.valid
        /\ ret[p].err = Err("unknown MediaType", 0)

\* --------------------------------------------------------------------- C13
\* C13: a request that failed in transport is the last request of its call;
\* the call has returned that failure as its error, not success.
T_C13_TransportFailureEndsCall ==
    \A p \in Procs :
        \A i \in DOMAIN log[p] :
            log[p][i].resp.err =>
                /\ i = Len(log[p])
                /\ Returned(p)
                /\ ~ret[p].exists
                /\ ret[p].err =
                     IF log[p][i].kind = "LOGIN" THEN Err("login transport", 0)
                     ELSE Err("transport", 0)

\* A config-blob GET that failed in transport, after a good manifest GET.
W_C13_BlobTransportFailure ==
    \E p \in Procs :
        /\ InHasPlatformImage(p) /\ Returned(p)
        /\ Len(log[p]) = 2
        /\ log[p][2].resp.err
        /\ ret[p].err = Err("transport", 0)

\* --------------------------------------------------------------------- C17
\* The request caller p issued in this step, if it issued one.
Issued(p) == Len(log'[p]) = Len(log[p]) + 1
NewRequest(p) == log'[p][Len(log'[p])]

\* C17: the cached token changes only in a login whose token response is a
\* 200 with a non-empty Token, and becomes that Token; a login that fails
\* leaves the token as it was and makes HasImage return the login's error at
\* once; a non-empty token never becomes empty, and no step of
\* HasPlatformImage changes the token.
T_C17_TokenChangesOnlyOnGoodLogin ==
    [][ /\ token' # token =>
             \E p \in Procs :
                 /\ InHasImage(p) /\ pc[p] = "login" /\ Issued(p)
                 /\ LoginSucceeded(NewRequest(p))
                 /\ token' = NewRequest(p).resp.Token
        /\ \A p \in Procs :
             ( /\ pc[p] = "login" /\ Issued(p)
               /\ ~LoginSucceeded(NewRequest(p)) )
             => LET r == NewRequest(p).resp
                IN  /\ token' = token
                    /\ Returned(p)'
                    /\ ~ret'[p].exists
                    /\ ret'[p].err =
                         IF r.err THEN Err("login transport", 0)
                         ELSE IF r.status # StatusOK THEN Err("login failed", r.status)
                         ELSE IF ~r.valid THEN Err("login decode", 0)
                         ELSE Err("response does not contains token", 0)
        /\ token # "" => token' # ""
        /\ \A p \in Procs : InHasPlatformImage(p) /\ InHasPlatformImage(p)' => token' = token
      ]_vars

\* A token response without a Token, received while a token was cached:
\* the call returned the error and the cached token is still there.
W_C17_FailedLoginKeepsToken ==
    \E p \in Procs :
        /\ InHasImage(p) /\ Returned(p)
        /\ Len(log[p]) = 2
        /\ log[p][2].kind = "LOGIN"
        /\ Answered(log[p][2], StatusOK) /\ log[p][2].resp.valid /\ log[p][2].resp.Token = ""
        /\ ret[p].err = Err("response does not contains token", 0)
        /\ token = "t1"

\* --------------------------------------------------------------------- C18
\* C18: when a call has returned, every response body it opened is closed.
\* While a call is running, the one body left open is the manifest body that
\* HasPlatformImage still needs over its config-blob request.
T_C18_BodiesClosed ==
    \A p \in Procs :
        /\ Returned(p) => open[p] = {}
        /\ open[p] # {} => pc[p] = "getImageConfig" /\ open[p] = {"manifest"}

\* A call that opened the manifest body and a config-blob body that did
\* not decode, and returned with both closed.
W_C18_ClosedAfterDecodeError ==
    \E p \in Procs :
        /\ InHasPlatformImage(p) /\ Returned(p)
        /\ Len(log[p]) = 2
        /\ Answered(log[p][2], StatusOK)
        /\ ret[p].err = Err("image config decode error", 0)
        /\ open[p] = {}

\* --------------------------------------------------------------------- C19
\* HasImage on its own, with a caller that is scheduled and requests that
\* each end in a response or a transport error: a probe or a login that can
\* be made is made.
NextHasImage ==
    \E p \in SeqProcs :
        \/ HasImageCall(p)
        \/ HasImageProbe(p)
        \/ login(p)

SpecHasImage ==
    /\ Init
    /\ [][NextHasImage]_vars
    /\ \A p \in SeqProcs : WF_vars(HasImageProbe(p)) /\ WF_vars(login(p))

\* The probes of p's call were exhausted: two were made, both answered 401,
\* and every login between them succeeded.
Exhausted(p) ==
    /\ Cardinality(Probes(p)) = MaxTries
    /\ \A i \in Probes(p) : Answered(log[p][i], StatusUnauthorized)
    /\ \A i \in Logins(p) : LoginSucceeded(log[p][i])

\* C19: a HasImage call makes at most two HEAD probes and returns, whatever
\* the answers are; it returns "aborted" only after exactly two probes that
\* were both answered 401 with no login failing.
T_C19_TerminatesWithinTwoProbes ==
    /\ [](\A p \in Procs :
            InHasImage(p) =>
              /\ Cardinality(Probes(p)) <= MaxTries
              /\ (Returned(p) /\ ret[p].err = Err("aborted", 0)) => Exhausted(p))
    /\ \A p \in SeqProcs : (InHasImage(p) /\ ~Returned(p)) ~> Returned(p)

\* Two probes answered 401 without a Bearer challenge: no login, "aborted".
W_C19_AbortedWithoutLogin ==
    \E p \in Procs :
        /\ InHasImage(p) /\ Returned(p)
        /\ ret[p].err = Err("aborted", 0)
        /\ Len(log[p]) = 2
        /\ Logins(p) = {}

\* ------------------------------------------------ the functions on their own
\* New, match and parseAuthHeader applied to arguments drawn from bounded
\* sets: input holds the arguments, output the result once it is computed.
ImageChars == {"a", ".", "/"}
ImageRefs == UNION {[1..n -> ImageChars] : n \in 0..MaxImageLen}
NewInputs == {[kind |-> "New", image |-> i] : i \in ImageRefs}

MatchInputs ==
    {[kind |-> "match", arch |-> a, os |-> o, platform |-> pf] :
        a \in Requested, o \in Requested, pf \in Platforms}

\* Challenge texts: some of the keys realm, service and scope, each once, in
\* any order, each with a quoted value, with a separator between the pairs
\* and padding around the whole.
Keys == {"realm", "service", "scope"}
KeyText ==
    [realm   |-> <<"r","e","a","l","m">>,
     service |-> <<"s","e","r","v","i","c","e">>,
     scope   |-> <<"s","c","o","p","e">>]
Orders ==
    {o \in UNION {[1..n -> Keys] : n \in 0..Cardinality(Keys)} :
        \A i, j \in DOMAIN o : i # j => o[i] # o[j]}
Values == {<<"u">>, <<"r", ":", "p", " ", ",", "=">>, <<>>}
Separators == {<<",">>, <<" ">>, <<",", " ">>}
Paddings == {<<>>, <<" ">>}
Present(o) == {o[i] : i \in DOMAIN o}
HeaderInputs ==
    UNION {{[kind |-> "parseAuthHeader", order |-> o, val |-> v, sep |-> sp, pad |-> pd] :
               v \in [Present(o) -> Values], sp \in Separators, pd \in Paddings} :
           o \in Orders}

Pair(k, v) == KeyText[k] \o <<"=", "\"">> \o v \o <<"\"">>
RECURSIVE Join(_, _, _)
Join(o, v, sp) ==
    IF o = <<>> THEN <<>>
    ELSE IF Len(o) = 1 THEN Pair(o[1], v[o[1]])
    ELSE Pair(o[1], v[o[1]]) \o sp \o Join(Tail(o), v, sp)
HeaderText(inp) == inp.pad \o Join(inp.order, inp.val, inp.sep) \o inp.pad

InitPure ==
    /\ user = ""
    /\ password = ""
    /\ token = ""
    /\ lastIssued = ""
    /\ op = [p \in Procs |-> "none"]
    /\ pc = [p \in Procs |-> "idle"]
    /\ tries = [p \in Procs |-> 0]
    /\ args = [p \in Procs |-> NoArgs]
    /\ log = [p \in Procs |-> <<>>]
    /\ ret = [p \in Procs |-> NoRet]
    /\ open = [p \in Procs |-> {}]
    /\ writing = [p \in Procs |-> ""]
    /\ overlap = {}
    /\ input \in NewInputs \cup MatchInputs \cup HeaderInputs
    /\ output = NoOutput

handleVars == <<user, password, token, lastIssued, op, pc, tries, args, log, ret, open>>

ApplyNew ==
    /\ input.kind = "New" /\ output = NoOutput
    /\ output' = [kind |-> "New", repository |-> New(input.image)]
    /\ UNCHANGED <<handleVars, raceVars, input>>

\* The two uses of match on one descriptor's platform (line 196).
ApplyMatch ==
    /\ input.kind = "match" /\ output = NoOutput
    /\ output' = [kind |-> "match",
                  arch |-> match(input.arch, input.platform.architecture),
                  os   |-> match(input.os, input.platform.os)]
    /\ UNCHANGED <<handleVars, raceVars, input>>

ApplyParseAuthHeader ==
    /\ input.kind = "parseAuthHeader" /\ output = NoOutput
    /\ output' = [kind |-> "parseAuthHeader", parsed |-> parseAuthHeader(HeaderText(input))]
    /\ UNCHANGED <<handleVars, raceVars, input>>

NextPure ==
    \/ ApplyNew
    \/ ApplyMatch
    \/ ApplyParseAuthHeader

SpecPure == InitPure /\ [][NextPure]_vars

\* --------------------------------------------------------------------- C14
\* Index of the first '/' of an image reference, 0 when it has none.
FirstSlash(image) ==
    IF \E i \in DOMAIN image : image[i] = "/"
    THEN CHOOSE i \in DOMAIN image :
            image[i] = "/" /\ \A j \in 1..(i - 1) : image[j] # "/"
    ELSE 0

\* C14: New resolves every image reference.  When the reference has a '/'
\* and the text before its first '/' has a '.', the host is that text and
\* the repository is everything after that '/'; otherwise the host is
\* registry-1.docker.io and the repository is the whole reference, with
\* "library/" put before it exactly when the reference has no '/'.
T_C14_NewResolves ==
    output.kind = "New" =>
        LET image == input.image
            k == FirstSlash(image)
            r == output.repository
        IN  IF k > 0 /\ \E j \in 1..(k - 1) : image[j] = "."
            THEN /\ r.host = SubSeq(image, 1, k - 1)
                 /\ r.repo = SubSeq(image, k + 1, Len(image))
            ELSE /\ r.host = <<"registry-1.docker.io">>
                 /\ r.repo = IF k = 0
                             THEN <<"l", "i", "b", "r", "a", "r", "y", "/">> \o image
                             ELSE image

\* "a/.a": a '.' after the first '/' only, so the image is a Docker Hub one.
W_C14_DotAfterSlash ==
    /\ output.kind = "New"
    /\ input.image = <<"a", "/", ".", "a">>
    /\ output.repository.host = dockerHubHost
    /\ output.repository.repo = input.image

\* --------------------------------------------------------------------- C15
\* C15: a requested arch or os matches a reported one exactly when it is
\* empty or equal to it; with both requested values empty every reported
\* platform pair matches.
T_C15_MatchWildcard ==
    output.kind = "match" =>
        /\ output.arch <=> (input.arch = "" \/ input.arch = input.platform.architecture)
        /\ output.os <=> (input.os = "" \/ input.os = input.platform.os)
        /\ (input.arch = "" /\ input.os = "") => (output.arch /\ output.os)

W_C15_BothEmptyMatch ==
    /\ output.kind = "match"
    /\ input.arch = "" /\ input.os = ""
    /\ input.platform = [present |-> TRUE, architecture |-> "amd64", os |-> "linux"]
    /\ output.arch /\ output.os

\* --------------------------------------------------------------------- C16
\* The result of parseAuthHeader that belongs to a key.
ResultFor(parsed, k) ==
    IF k = "realm" THEN parsed.endpoint
    ELSE IF k = "service" THEN parsed.service
    ELSE parsed.scope

\* C16: parseAuthHeader returns for realm, service and scope the value each
\* key carries between its quotes, in whatever order the pairs stand and
\* whatever separates or surrounds the pairs, and the empty string for a
\* key the text does not have.
T_C16_ParseAuthHeader ==
    output.kind = "parseAuthHeader" =>
        \A k \in Keys :
            ResultFor(output.parsed, k) =
                IF k \in Present(input.order) THEN input.val[k] ELSE <<>>

\* scope before realm, no service, a value with a space, a comma and an '='.
W_C16_ReversedOrder ==
    /\ output.kind = "parseAuthHeader"
    /\ input.order = <<"scope", "realm">>
    /\ input.sep = <<",", " ">> /\ input.pad = <<" ">>
    /\ input.val["realm"] = <<"r", ":", "p", " ", ",", "=">>
    /\ output.parsed.endpoint = <<"r", ":", "p", " ", ",", "=">>
    /\ output.parsed.scope = input.val["scope"]
    /\ output.parsed.service = <<>>

\* ------------------------------------------- two callers on one handle
\* HasImage called once by each of two goroutines that share the handle.
\* c.token is a string (a pointer and a length) that login stores (line 89)
\* and setAuthHeader loads (lines 153-154) without synchronisation.  The
\* store is in progress from the moment login has its Token until the store
\* ends.  A load or a store that overlaps another caller's store is a data
\* race: what it yields is one of the two strings or a mix of the pointer of
\* one and the length of the other.
Torn == "torn"

\* overlap holds <<p, "storing">> while p's store overlaps another store,
\* and <<p, "raced">> from then on for a caller with a racing access.
Racing(p) == \E q \in Procs \ {p} : writing[q] # ""
Racers(p) == {q \in Procs \ {p} : writing[q] # ""}

\* What a load of c.token by p may yield.
ReadToken(p) ==
    IF Racing(p)
    THEN {token, Torn} \cup {writing[q] : q \in Racers(p)}
    ELSE {token}

\* What p's store may leave in c.token.
StoredToken(p) ==
    IF <<p, "storing">> \in overlap THEN {writing[p], Torn} ELSE {writing[p]}

InitShared ==
    /\ Init
    /\ user = "bob"
    /\ password = "pw"

\* HasImageProbe with the load of c.token made by setAuthHeader.
HasImageProbeShared(p) ==
    /\ op[p] = "HasImage"
    /\ pc[p] = "getAvailability"
    /\ \E r \in HeadResponses, v \in ReadToken(p) :
         /\ tries' = [tries EXCEPT ![p] = tries[p] - 1]
         /\ log' = [log EXCEPT ![p] =
                      Append(log[p], Request("HEAD", setAuthHeader(user, password, v),
                                             <<"manifests">>, r))]
         /\ open' = [open EXCEPT ![p] = getAvailabilityBodies(@, r)]
         /\ IF r.err
            THEN Return(p, FALSE, Err("transport", 0))
            ELSE ProbeSwitch(p, r, tries[p] - 1)
    /\ overlap' = IF Racing(p) THEN overlap \cup {<<p, "raced">>} ELSE overlap
    /\ UNCHANGED <<user, password, token, lastIssued, op, args, writing, pureVars>>

\* login up to the store of the Token (lines 55-88).
loginShared(p) ==
    /\ op[p] = "HasImage"
    /\ pc[p] = "login"
    /\ LET h == log[p][Len(log[p])].resp.wwwAuth
           ch == Challenge[h]
       IN  IF urlParseFails(ch.endpoint)
           THEN /\ Return(p, FALSE, Err("login url", 0))
                /\ UNCHANGED <<log, open, writing, overlap>>
           ELSE \E r \in LoginResponses :
                  /\ log' = [log EXCEPT ![p] =
                               Append(log[p], Request("LOGIN", loginAuth(user, password), ch, r))]
                  /\ open' = [open EXCEPT ![p] = loginBodies(@, r)]
                  /\ IF loginError(r) = Nil
                     THEN /\ writing' = [writing EXCEPT ![p] = r.Token]
                          /\ overlap' =
                               IF Racing(p)
                               THEN overlap \cup ((Racers(p) \cup {p}) \X {"storing", "raced"})
                               ELSE overlap
                          /\ pc' = [pc EXCEPT ![p] = "storeToken"]
                          /\ UNCHANGED ret
                     ELSE /\ Return(p, FALSE, loginError(r))
                          /\ UNCHANGED <<writing, overlap>>
    /\ UNCHANGED <<user, password, token, lastIssued, op, tries, args, pureVars>>

\* storeToken with the assignment left out.
storeToken_KeepsOld(p) ==
    /\ op[p] = "HasImage"
    /\ pc[p] = "storeToken"
    /\ token' = token
    /\ lastIssued' = writing[p]
    /\ writing' = [writing EXCEPT ![p] = ""]
    /\ overlap' = overlap \ {<<p, "storing">>}
    /\ NextTry(p, tries[p])
    /\ UNCHANGED <<user, password, op, tries, args, log, open, pureVars>>

\* c.token = body.Token (line 89) completes, and login returns nil.
storeToken(p) ==
    /\ op[p] = "HasImage"
    /\ pc[p] = "storeToken"
    /\ token' \in StoredToken(p)
    /\ lastIssued' = writing[p]
    /\ writing' = [writing EXCEPT ![p] = ""]
    /\ overlap' = overlap \ {<<p, "storing">>}
    /\ NextTry(p, tries[p])
    /\ UNCHANGED <<user, password, op, tries, args, log, open, pureVars>>

NextShared ==
    \E p \in Procs :
        \/ pc[p] = "idle" /\ HasImageCall(p)
        \/ HasImageProbeShared(p)
        \/ loginShared(p)
        \/ storeToken(p)

SpecShared == InitShared /\ [][NextShared]_vars

\* --------------------------------------------------------------------- C20
\* Tokens that successful token responses have returned for the handle.
IssuedTokens ==
    UNION {{log[q][i].resp.Token : i \in {j \in Logins(q) : LoginSucceeded(log[q][j])}} :
           q \in Procs}
SendsBearer(e) == Len(e.auth) = 2 /\ e.auth[1] = "Bearer "
BothFinished == \A p \in Procs : InHasImage(p) /\ Returned(p)
TokenIsSound ==
    /\ \A p \in Procs : \A i \in Probes(p) :
         SendsBearer(log[p][i]) => log[p][i].auth[2] \in IssuedTokens
    /\ BothFinished =>
         /\ token \in IssuedTokens \cup {""}
         /\ token = "" => IssuedTokens = {}
         /\ token = lastIssued

\* C20 as stated: under every interleaving of two concurrent HasImage calls
\* on one handle, the Bearer token of every probe and the token cached when
\* both calls have finished is a value some successful token response
\* returned (not empty once one was returned), and the token cached at the
\* end is the one the last successful login wrote.
CE_C20_TokenAlwaysIssued == TokenIsSound

\* C20 amended: the same holds in every interleaving in which no load or
\* store of the token by one call overlaps a store of it by the other.
T_C20_TokenIssuedWithoutRace ==
    (\A p \in Procs : <<p, "raced">> \notin overlap) => TokenIsSound

\* Without any racing access, the second probe of one call carries the
\* token the other call obtained, and both calls have finished.
W_C20_ProbeCarriesOthersToken ==
    /\ BothFinished
    /\ overlap = {}
    /\ \E p \in Procs, q \in Procs :
         /\ p # q
         /\ Logins(p) = {}
         /\ \E i \in Probes(p) :
              /\ SendsBearer(log[p][i])
              /\ \E j \in Logins(q) :
                   LoginSucceeded(log[q][j]) /\ log[q][j].resp.Token = log[p][i].auth[2]

====
